---- MODULE Spec2Model ----
(***************************************************************************)
(* Model of the eCommerce crawler (src/main.go).  The file holds two       *)
(* program variants: the non-recursive one (lines 1-284) and the recursive *)
(* one (lines 286-521).  Both share the claim step (isURLVisited followed  *)
(* by markURLVisited), the browser session, the WaitGroup and the buffered *)
(* result channel; the recursive one adds category links, pagination and   *)
(* the spawning of child goroutines.                                       *)
(***************************************************************************)
EXTENDS Integers, Sequences, FiniteSets, TLC

\* ---------------------------------------------------------------- bounds
MaxTasks == 3          \* goroutine slots of one run (seed and spawned tasks)

\* ------------------------------------------------------------- constants
scrollAttempts == 5    \* line 26; the literal 5 of infiniteScroll, line 353

\* ------------------------------------------------------- ProductURLRegex
\* Page contents and the regular expression work on sequences of
\* one-character strings.
Lower ==
  {"a", "b", "c", "d", "e", "f", "g", "h", "i", "j", "k", "l", "m",
   "n", "o", "p", "q", "r", "s", "t", "u", "v", "w", "x", "y", "z"}
Upper ==
  {"A", "B", "C", "D", "E", "F", "G", "H", "I", "J", "K", "L", "M",
   "N", "O", "P", "Q", "R", "S", "T", "U", "V", "W", "X", "Y", "Z"}
Digit == {"0", "1", "2", "3", "4", "5", "6", "7", "8", "9"}

\* [a-zA-Z0-9-_]
ClassChar(c) == c \in Lower \cup Upper \cup Digit \cup {"-", "_"}

\* (dp|gp/product|product|item|shop|p), in the order of the alternation
Keywords ==
  << <<"d", "p">>, 
     <<"g", "p", "/", "p", "r", "o", "d", "u", "c", "t">>, 
     <<"p", "r", "o", "d", "u", "c", "t">>, 
     <<"i", "t", "e", "m">>, <<"s", "h", "o", "p">>, <<"p">> >>

\* whether the characters of w stand in s from position i on
HasAt(s, i, w) ==
  /\ i >= 1
  /\ i + Len(w) - 1 <= Len(s)
  /\ SubSeq(s, i, i + Len(w) - 1) = w

\* the last position of the longest run of class characters that starts at
\* j; j - 1 when s[j] is none
RECURSIVE RunEnd(_, _)
RunEnd(s, j) ==
  IF j <= Len(s) /\ ClassChar(s[j]) THEN RunEnd(s, j + 1) ELSE j - 1

\* where the match of alternative k that starts at i ends; 0 when there is
\* none.  [a-zA-Z0-9-_]+ is greedy, and giving characters back never helps:
\* a shorter run is followed by a class character, which is neither "/" nor
\* "?" nor the end of the text ($ without the m flag).
MatchEndOf(s, i, k) ==
  IF ~HasAt(s, i, <<"/">> \o Keywords[k] \o <<"/">>) THEN 0
  ELSE LET j == i + Len(Keywords[k]) + 2
           e == RunEnd(s, j)
       IN  IF e < j THEN 0
           ELSE IF e = Len(s) THEN e
           ELSE IF s[e + 1] \in {"/", "?"} THEN e + 1
           ELSE 0

\* the match that starts at i: that of the first alternative that matches
MatchEnd(s, i) ==
  LET ks == {k \in 1..Len(Keywords) : MatchEndOf(s, i, k) > 0}
  IN  IF ks = {} THEN 0
      ELSE MatchEndOf(s, i, CHOOSE k \in ks : \A k2 \in ks : k <= k2)

\* FindAllString(s, -1): the leftmost matches, none overlapping another
RECURSIVE FindFrom(_, _)
FindFrom(s, i) ==
  IF i > Len(s) THEN <<>>
  ELSE LET e == MatchEnd(s, i)
       IN  IF e = 0 THEN FindFrom(s, i + 1)
           ELSE <<SubSeq(s, i, e)>> \o FindFrom(s, e + 1)

FindAllString(s) == FindFrom(s, 1)

\* a sequence of characters as a string
RECURSIVE Str(_)
Str(cs) == IF cs = <<>> THEN "" ELSE Head(cs) \o Str(Tail(cs))

\* ------------------------------------------------------------ environment
URLs == {"A", "B", "C"}

\* a.category-link hrefs of each page, in document order
NoLinks == [u \in URLs |-> <<>>]
AtoB    == [u \in URLs |-> IF u = "A" THEN <<"B">> ELSE <<>>]
Cycle   == [u \in URLs |-> IF u = "A" THEN <<"B">> ELSE <<"A">>]
Chain   == [u \in URLs |-> IF u = "A" THEN <<"B">>
                           ELSE IF u = "B" THEN <<"C">> ELSE <<>>]

\* number of result pages of each listing (the last has no a.next-page)
OnePage  == [u \in URLs |-> 1]
TwoPages == [u \in URLs |-> IF u = "A" THEN 2 ELSE 1]
FourPages == [u \in URLs |-> IF u = "A" THEN 4 ELSE 1]

Site(ds, ls, ps) ==
  [domains |-> ds, links |-> ls, pages |-> ps, scrollFail |-> 0]

\* the site on which scroll-and-wait cycle k of every page fails
FailingScroll(s, k) == [s EXCEPT !.scrollFail = k]

\* the runs explored: main's domains slice (one seed, two distinct seeds, the
\* same seed twice) on a site without category links, with a link A -> B,
\* with the cycle A -> B -> A, with the chain A -> B -> C, and with a
\* paginated listing
Sites ==
  { Site(<<"A">>, NoLinks, OnePage),
    Site(<<"A">>, NoLinks, TwoPages),
    Site(<<"A">>, NoLinks, FourPages),
    Site(<<"A">>, AtoB, OnePage),
    Site(<<"A">>, Cycle, OnePage),
    Site(<<"A">>, Chain, OnePage),
    Site(<<"A", "B">>, NoLinks, OnePage),
    Site(<<"A", "B">>, AtoB, OnePage),
    Site(<<"A", "A">>, NoLinks, OnePage),
    Site(<<"A", "A">>, AtoB, OnePage),
    FailingScroll(Site(<<"A">>, NoLinks, OnePage), 1),
    FailingScroll(Site(<<"A">>, NoLinks, OnePage), 3) }

\* keys left in Redis by a run of the previous 24 hours
VisitedBefore == {{}, {"A"}}

\* the rendered html of result page k of listing u
Html(u, k) ==
  IF u = "A" THEN
    (IF k = 1 THEN
       <<"\"", "/", "d", "p", "/", "1", "/", "\"", " ", "\"", "/", "d",
        "p", "/", "1", "/", "\"">>
     ELSE IF k = 2 THEN
       <<"\"", "/", "d", "p", "/", "1", "/", "\"", " ", "\"", "/", "p",
        "/", "2", "?", "x", "\"">>
     ELSE IF k = 3 THEN
       <<"\"", "/", "p", "/", "2", "?", "x", "\"", " ", "\"", "/", "i",
        "t", "e", "m", "/", "4", "/", "\"">>
     ELSE
       <<"\"", "/", "d", "p", "/", "1", "/", "\"", " ", "/", "s", "h",
        "o", "p", "/", "5">>)
  ELSE IF u = "B" THEN
    <<"\"", "/", "i", "t", "e", "m", "/", "3", "/", "\"">>
  ELSE
    <<"\"", "/", "p", "r", "o", "d", "u", "c", "t", "/", "6", "/",
        "\"">>

\* ProductURLRegex.FindAllString on the rendered html of every page
PageMatches ==
  [u \in URLs |->
     [k \in 1..FourPages[u] |->
        LET found == FindAllString(Html(u, k))
        IN  [j \in 1..Len(found) |-> Str(found[j])]]]

\* the matches on page k of u
Matches(u, k) == PageMatches[u][k]

Slots == 1..MaxTasks

VARIABLES
  ext,         \* a call of extractProductURLs on its own: input and result
  scrollFail,  \* the scroll-and-wait cycle that fails on this site, 0: none
  recursive,   \* TRUE: the variant of lines 286-521, FALSE: lines 1-284
  domains,     \* main's domains slice
  links,       \* the category links of the crawled site
  pages,       \* the number of result pages of each listing
  redis,       \* keys present in Redis
  redisError,  \* a Redis call of this run has returned an error
  db,          \* rows of product_urls
  dbErrors,    \* a db.Create of this run was rejected by the unique index
  tasks,       \* the scrapeWebsite goroutines, by slot
  ntasks,      \* goroutines started so far
  wg,          \* sync.WaitGroup counter
  resultChan,  \* buffered channel contents
  closed,      \* close(resultChan) done
  results,     \* main's results slice
  mainpc, mi,  \* main's position and loop index
  saved        \* argument of saveResults; <<"none">> before the call

crawlerVars ==
  <<scrollFail, recursive, domains, links, pages, redis, redisError, db, dbErrors, tasks,
    ntasks, wg, resultChan, closed, results, mainpc, mi, saved>>

vars == <<ext, crawlerVars>>

\* no call of extractProductURLs on its own
NoCall == [pc |-> "off", content |-> <<>>, base |-> <<>>, out |-> <<>>]

NoTask ==
  [url |-> "", depth |-> 0, pc |-> "idle", session |-> FALSE,
   visited |-> "unset", err |-> FALSE, categoryLinks |-> <<>>,
   productURLs |-> <<>>, page |-> 0, stale |-> FALSE, i |-> 0,
   scrolls |-> 0, scrollErr |-> FALSE]

\* the zero-valued locals of a goroutine started by `go scrapeWebsite(u, ...)`;
\* depth is not a value of the program: it records how many category links
\* lead from a seed to this task
NewTask(u, d) == [NoTask EXCEPT !.url = u, !.depth = d, !.pc = "isURLVisited"]

\* make(chan CrawlResult, len(domains))
Capacity == Len(domains)

CrawlResult(d, us) == [Domain |-> d, URLs |-> us]

Init ==
  /\ ext = NoCall
  /\ recursive \in BOOLEAN
  /\ \E s \in Sites :
       \* the non-recursive variant reads neither category links nor
       \* a.next-page
       /\ recursive \/ (s.links = NoLinks /\ s.pages = OnePage)
       /\ domains = s.domains
       /\ links = s.links
       /\ pages = s.pages
       /\ scrollFail = s.scrollFail
  /\ redis \in VisitedBefore
  /\ redisError = FALSE
  /\ db = {}
  /\ dbErrors = FALSE
  /\ tasks = [t \in Slots |-> NoTask]
  /\ ntasks = 0
  /\ wg = 0
  /\ resultChan = <<>>
  /\ closed = FALSE
  /\ results = <<>>
  /\ mainpc = "spawn"
  /\ mi = 1
  /\ saved = <<"none">>

\* ------------------------------------------------------------ Redis gateway
\* isURLVisited: EXISTS url; an error of the call is answered with false
isURLVisited(u, e) == IF e THEN FALSE ELSE u \in redis

\* markURLVisited: SET url 1 EX 24h; an error of the call leaves no key
markURLVisited(u, e) == IF e THEN redis ELSE redis \cup {u}

\* ---------------------------------------------------------------- Postgres
\* db.Create on product_urls: the unique index on url rejects a second row
\* with the same url, and the callers ignore the returned error
dbCreate(d, dom, u) ==
  IF \E r \in d : r.URL = u THEN d ELSE d \cup {[Domain |-> dom, URL |-> u]}

RECURSIVE dbCreateAll(_, _, _)
dbCreateAll(d, dom, us) ==
  IF us = <<>> THEN d
  ELSE dbCreateAll(dbCreate(d, dom, Head(us)), dom, Tail(us))

\* whether one of the db.Create calls for the pairwise distinct URLs `us`,
\* issued on table `d`, violates the unique index
dbRejects(d, us) == \E j \in 1..Len(us) : \E r \in d : r.URL = us[j]

\* storeProductURLs: for each URL a COUNT query, and db.Create only when
\* the count is 0
RECURSIVE storeProductURLs(_, _, _)
storeProductURLs(d, us, dom) ==
  IF us = <<>> THEN d
  ELSE LET count == Cardinality({r \in d : r.URL = Head(us)})
       IN  storeProductURLs(IF count = 0 THEN dbCreate(d, dom, Head(us)) ELSE d,
                            Tail(us), dom)

\* the loop of lines 236-238, whose variable shadows the parameter url:
\* db.Create(&ProductURL{Domain: url, URL: url}) for each product URL
RECURSIVE createEach(_, _)
createEach(d, us) ==
  IF us = <<>> THEN d
  ELSE createEach(dbCreate(d, Head(us), Head(us)), Tail(us))

\* ------------------------------------------------------------- extraction
InSeq(x, s) == \E j \in 1..Len(s) : s[j] = x

\* appendUnique without the uniqueURLs lookup
RECURSIVE appendAll(_, _, _)
appendAll(acc, base, ms) ==
  IF ms = <<>> THEN acc
  ELSE appendAll(Append(acc, base \o Head(ms)), base, Tail(ms))

\* the loop over the regex matches: fullURL := url + match, kept when the
\* uniqueURLs map (the URLs already in `acc`) does not hold it yet
RECURSIVE appendUnique(_, _, _)
appendUnique(acc, base, ms) ==
  IF ms = <<>> THEN acc
  ELSE LET fullURL == base \o Head(ms)
       IN  appendUnique(IF InSeq(fullURL, acc) THEN acc ELSE Append(acc, fullURL),
                        base, Tail(ms))

extractProductURLs(ms, baseURL) == appendUnique(<<>>, baseURL, ms)

\* ------------------------------------------------------------------ tasks
Set(t, r) == tasks' = [tasks EXCEPT ![t] = r]

\* whether a chromedp.Run succeeds: it returns an error when a browser
\* action fails or when the 30 s timeout of the task's context has expired.
\* The timeout acts only through these errors: no statement of scrapeWebsite
\* selects on ctx.Done(), the channel send included.
RunOutcomes == BOOLEAN

\* scrapeWebsite, lines 400-403: the visited check
CheckVisited(t) ==
  /\ tasks[t].pc = "isURLVisited"
  /\ \E e \in BOOLEAN :
       LET v == isURLVisited(tasks[t].url, e) IN
       /\ Set(t, [tasks[t] EXCEPT
                    !.visited = IF e THEN "err" ELSE IF v THEN "yes" ELSE "no",
                    !.pc = IF v THEN "wgDone" ELSE "markURLVisited"])
       /\ redisError' = (redisError \/ e)
  /\ UNCHANGED <<ext, scrollFail, recursive, domains, links, pages, redis, db, dbErrors, ntasks, wg, resultChan,
                 closed, results, mainpc, mi, saved>>

\* scrapeWebsite, line 404
MarkVisited(t) ==
  /\ tasks[t].pc = "markURLVisited"
  /\ \E e \in BOOLEAN :
       /\ redis' = markURLVisited(tasks[t].url, e)
       /\ redisError' = (redisError \/ e)
  /\ Set(t, [tasks[t] EXCEPT !.pc = "newContext"])
  /\ UNCHANGED <<ext, scrollFail, recursive, domains, links, pages, db, dbErrors, ntasks, wg, resultChan,
                 closed, results, mainpc, mi, saved>>

\* NewExecAllocator, NewContext, WithTimeout: the task's browser session
NewSession(t) ==
  /\ tasks[t].pc = "newContext"
  /\ Set(t, [tasks[t] EXCEPT !.session = TRUE, !.pc = "run"])
  /\ UNCHANGED <<ext, scrollFail, recursive, domains, links, pages, redis, redisError, db, dbErrors, ntasks, wg,
                 resultChan, closed, results, mainpc, mi, saved>>

\* non-recursive variant: Navigate, WaitVisible, OuterHTML (lines 214-223)
LoadPage(t) ==
  /\ ~recursive
  /\ tasks[t].pc = "run"
  /\ \E ok \in RunOutcomes :
       Set(t, [tasks[t] EXCEPT !.err = ~ok, !.page = IF ok THEN 1 ELSE 0,
                               !.pc = IF ok THEN "scroll" ELSE "cancel"])
  /\ UNCHANGED <<ext, scrollFail, recursive, domains, links, pages, redis, redisError, db, dbErrors, ntasks, wg,
                 resultChan, closed, results, mainpc, mi, saved>>

\* performInfiniteScroll (lines 131-142; infiniteScroll, lines 352-364):
\* cycle i + 1 is run while i < scrollAttempts; the first cycle that fails
\* ends the function.  The result is the number of cycles run and whether
\* the last one failed.
RECURSIVE scrollFrom(_, _)
scrollFrom(i, failAt) ==
  IF i >= scrollAttempts THEN [cycles |-> i, err |-> FALSE]
  ELSE IF i + 1 = failAt THEN [cycles |-> i + 1, err |-> TRUE]
  ELSE scrollFrom(i + 1, failAt)

performInfiniteScroll(failAt) == scrollFrom(0, failAt)

\* Scroll with `return` after a scrolling error
ScrollOrReturn(t) ==
  /\ tasks[t].pc = "scroll"
  /\ LET s == performInfiniteScroll(scrollFail) IN
       Set(t, [tasks[t] EXCEPT !.scrolls = s.cycles, !.scrollErr = s.err,
                               !.pc = IF s.err THEN "cancel" ELSE "extract"])
  /\ UNCHANGED <<ext, scrollFail, recursive, domains, links, pages, redis, redisError, db, dbErrors, ntasks, wg,
                 resultChan, closed, results, mainpc, mi, saved>>

\* non-recursive variant: performInfiniteScroll, which logs a scrolling
\* error and returns nothing, and the second OuterHTML, whose error is
\* dropped (lines 225-227).  scrolls and scrollErr are not values of the
\* program: they record what the call did.
Scroll(t) ==
  /\ tasks[t].pc = "scroll"
  /\ LET s == performInfiniteScroll(scrollFail) IN
       Set(t, [tasks[t] EXCEPT !.scrolls = s.cycles, !.scrollErr = s.err,
                               !.pc = "extract"])
  /\ UNCHANGED <<ext, scrollFail, recursive, domains, links, pages, redis, redisError, db, dbErrors, ntasks, wg,
                 resultChan, closed, results, mainpc, mi, saved>>

\* non-recursive variant: extractProductURLs, storeProductURLs and the
\* db.Create loop (lines 230-238)
ExtractAndStore(t) ==
  /\ tasks[t].pc = "extract"
  /\ LET us == extractProductURLs(Matches(tasks[t].url, 1), tasks[t].url)
         stored == storeProductURLs(db, us, tasks[t].url)
     IN
       /\ Set(t, [tasks[t] EXCEPT !.productURLs = us, !.pc = "send"])
       /\ db' = createEach(stored, us)
       /\ dbErrors' = (dbErrors \/ dbRejects(stored, us))
  /\ UNCHANGED <<ext, scrollFail, recursive, domains, links, pages, redis, redisError, ntasks, wg,
                 resultChan, closed, results, mainpc, mi, saved>>

\* recursive variant: Navigate, WaitVisible, infiniteScroll (whose error
\* the ActionFunc drops: it returns nil), OuterHTML (lines 420-433).  The
\* Run fails before the scroll (ready is FALSE) or at the OuterHTML after it.
LoadPageRec(t) ==
  /\ recursive
  /\ tasks[t].pc = "run"
  /\ \E ready \in RunOutcomes, ok \in RunOutcomes :
       LET s == performInfiniteScroll(scrollFail) IN
       Set(t, [tasks[t] EXCEPT
                 !.err = ~(ready /\ ok),
                 !.scrolls = IF ready THEN s.cycles ELSE 0,
                 !.scrollErr = ready /\ s.err,
                 !.page = IF ready /\ ok THEN 1 ELSE 0,
                 !.pc = IF ready /\ ok THEN "categoryLinks" ELSE "cancel"])
  /\ UNCHANGED <<ext, scrollFail, recursive, domains, links, pages, redis, redisError, db, dbErrors, ntasks, wg,
                 resultChan, closed, results, mainpc, mi, saved>>

\* extractCategoryLinks: the hrefs of a.category-link, nil on error
extractCategoryLinks(u, ok) == IF ok THEN links[u] ELSE <<>>

\* recursive variant, line 436
CategoryLinks(t) ==
  /\ tasks[t].pc = "categoryLinks"
  /\ \E ok \in RunOutcomes :
       Set(t, [tasks[t] EXCEPT
                 !.categoryLinks = extractCategoryLinks(tasks[t].url, ok),
                 !.pc = "extractRec"])
  /\ UNCHANGED <<ext, scrollFail, recursive, domains, links, pages, redis, redisError, db, dbErrors, ntasks, wg,
                 resultChan, closed, results, mainpc, mi, saved>>

\* the URLs of `us` from position n + 1 on: those one extraction pass added
NewOnes(us, n) == SubSeq(us, n + 1, Len(us))

\* recursive variant: the first extraction pass, each new URL stored with
\* db.Create (lines 439-450)
ExtractRec(t) ==
  /\ tasks[t].pc = "extractRec"
  /\ LET us == appendUnique(<<>>, tasks[t].url, Matches(tasks[t].url, 1)) IN
       /\ Set(t, [tasks[t] EXCEPT !.productURLs = us, !.pc = "clickNextPage"])
       /\ db' = dbCreateAll(db, tasks[t].url, us)
       /\ dbErrors' = (dbErrors \/ dbRejects(db, us))
  /\ UNCHANGED <<ext, scrollFail, recursive, domains, links, pages, redis, redisError, ntasks, wg,
                 resultChan, closed, results, mainpc, mi, saved>>

\* clickNextPage: a.next-page exists and the click-and-sleep succeeded
clickNextPage(t, ok) ==
  ok /\ tasks[t].page < pages[tasks[t].url]

\* Paginate with `productURLs = nil` at the head of each round: the pass
\* keeps the URLs of the page just read only
PaginateReplace(t) ==
  /\ tasks[t].pc = "clickNextPage"
  /\ \E ok \in RunOutcomes, okRead \in RunOutcomes :
       IF clickNextPage(t, ok)
       THEN LET k  == tasks[t].page + 1
                us == IF okRead
                      THEN appendUnique(<<>>, tasks[t].url, Matches(tasks[t].url, k))
                      ELSE tasks[t].productURLs
            IN  /\ Set(t, [tasks[t] EXCEPT !.page = k, !.productURLs = us,
                                           !.stale = @ \/ ~okRead])
                /\ db' = dbCreateAll(db, tasks[t].url, us)
                /\ dbErrors' = (dbErrors \/ dbRejects(db, us))
       ELSE /\ Set(t, [tasks[t] EXCEPT
                         !.i = 1,
                         !.pc = IF tasks[t].categoryLinks = <<>>
                                THEN "send" ELSE "spawn"])
            /\ UNCHANGED <<db, dbErrors>>
  /\ UNCHANGED <<ext, scrollFail, recursive, domains, links, pages, redis, redisError, ntasks, wg,
                 resultChan, closed, results, mainpc, mi, saved>>

\* recursive variant: one round of the pagination loop (lines 453-464); the
\* error of the OuterHTML read after the click is dropped (line 454): the
\* read then leaves htmlContent as it was, the pass adds nothing, and the
\* task has skipped the content of page k (stale)
Paginate(t) ==
  /\ tasks[t].pc = "clickNextPage"
  /\ \E ok \in RunOutcomes, okRead \in RunOutcomes :
       IF clickNextPage(t, ok)
       THEN LET k  == tasks[t].page + 1
                us == IF okRead
                      THEN appendUnique(tasks[t].productURLs, tasks[t].url,
                                        Matches(tasks[t].url, k))
                      ELSE tasks[t].productURLs
            IN  /\ Set(t, [tasks[t] EXCEPT !.page = k, !.productURLs = us,
                                           !.stale = @ \/ ~okRead])
                /\ db' = dbCreateAll(db, tasks[t].url,
                                     NewOnes(us, Len(tasks[t].productURLs)))
                /\ dbErrors' = (dbErrors
                                \/ dbRejects(db, NewOnes(us, Len(tasks[t].productURLs))))
       ELSE /\ Set(t, [tasks[t] EXCEPT
                         !.i = 1,
                         !.pc = IF tasks[t].categoryLinks = <<>>
                                THEN "send" ELSE "spawn"])
            /\ UNCHANGED <<db, dbErrors>>
  /\ UNCHANGED <<ext, scrollFail, recursive, domains, links, pages, redis, redisError, ntasks, wg,
                 resultChan, closed, results, mainpc, mi, saved>>

\* SpawnChild without the wg.Add(1) before the go statement
SpawnChildNoAdd(t) ==
  /\ tasks[t].pc = "spawn"
  /\ ntasks < MaxTasks
  /\ LET catURL == tasks[t].categoryLinks[tasks[t].i] IN
       tasks' = [tasks EXCEPT
                   ![t] = [@ EXCEPT !.i = @ + 1,
                                    !.pc = IF tasks[t].i = Len(tasks[t].categoryLinks)
                                           THEN "send" ELSE "spawn"],
                   ![ntasks + 1] = NewTask(catURL, tasks[t].depth + 1)]
  /\ wg' = wg
  /\ ntasks' = ntasks + 1
  /\ UNCHANGED <<ext, scrollFail, recursive, domains, links, pages, redis, redisError, db, dbErrors,
                 resultChan, closed, results, mainpc, mi, saved>>

\* recursive variant: one round of the loop over categoryLinks:
\* wg.Add(1); go scrapeWebsite(catURL, resultChan, wg) (lines 467-470)
SpawnChild(t) ==
  /\ tasks[t].pc = "spawn"
  /\ ntasks < MaxTasks
  /\ LET catURL == tasks[t].categoryLinks[tasks[t].i] IN
       tasks' = [tasks EXCEPT
                   ![t] = [@ EXCEPT !.i = @ + 1,
                                    !.pc = IF tasks[t].i = Len(tasks[t].categoryLinks)
                                           THEN "send" ELSE "spawn"],
                   ![ntasks + 1] = NewTask(catURL, tasks[t].depth + 1)]
  /\ wg' = wg + 1
  /\ ntasks' = ntasks + 1
  /\ UNCHANGED <<ext, scrollFail, recursive, domains, links, pages, redis, redisError, db, dbErrors,
                 resultChan, closed, results, mainpc, mi, saved>>

\* resultChan <- CrawlResult{Domain: url, URLs: productURLs}: blocks while
\* the buffer is full (lines 240, 472)
Send(t) ==
  /\ tasks[t].pc = "send"
  /\ Len(resultChan) < Capacity
  /\ resultChan' = Append(resultChan, CrawlResult(tasks[t].url, tasks[t].productURLs))
  /\ Set(t, [tasks[t] EXCEPT !.pc = "cancel"])
  /\ UNCHANGED <<ext, scrollFail, recursive, domains, links, pages, redis, redisError, db, dbErrors, ntasks, wg,
                 closed, results, mainpc, mi, saved>>

\* the three deferred cancel() calls: the browser session is released; the
\* locals of the returning function are dead from here on
Cancel(t) ==
  /\ tasks[t].pc = "cancel"
  /\ Set(t, [tasks[t] EXCEPT !.session = FALSE, !.pc = "wgDone",
                             !.categoryLinks = <<>>, !.productURLs = <<>>,
                             !.page = 0, !.stale = FALSE, !.i = 0])
  /\ UNCHANGED <<ext, scrollFail, recursive, domains, links, pages, redis, redisError, db, dbErrors, ntasks, wg,
                 resultChan, closed, results, mainpc, mi, saved>>

\* the deferred wg.Done(), which runs last
WgDone(t) ==
  /\ tasks[t].pc = "wgDone"
  /\ wg' = wg - 1
  /\ Set(t, [tasks[t] EXCEPT !.pc = "done"])
  /\ UNCHANGED <<ext, scrollFail, recursive, domains, links, pages, redis, redisError, db, dbErrors, ntasks,
                 resultChan, closed, results, mainpc, mi, saved>>

\* ------------------------------------------------------------------- main
\* one round of the loop over domains: wg.Add(1); go scrapeWebsite(domain)
MainSpawn ==
  /\ mainpc = "spawn"
  /\ ntasks < MaxTasks
  /\ tasks' = [tasks EXCEPT ![ntasks + 1] = NewTask(domains[mi], 0)]
  /\ wg' = wg + 1
  /\ ntasks' = ntasks + 1
  /\ mi' = mi + 1
  /\ mainpc' = IF mi = Len(domains) THEN "wait" ELSE "spawn"
  /\ UNCHANGED <<ext, scrollFail, recursive, domains, links, pages, redis, redisError, db, dbErrors,
                 resultChan, closed, results, saved>>

\* MainWait without the wait: main goes on to close(resultChan) at once
MainNoWait ==
  /\ mainpc = "wait"
  /\ mainpc' = "close"
  /\ UNCHANGED <<ext, scrollFail, recursive, domains, links, pages, redis, redisError, db, dbErrors, tasks, ntasks,
                 wg, resultChan, closed, results, mi, saved>>

\* wg.Wait() returns when the counter is zero
MainWait ==
  /\ mainpc = "wait"
  /\ wg = 0
  /\ mainpc' = "close"
  /\ UNCHANGED <<ext, scrollFail, recursive, domains, links, pages, redis, redisError, db, dbErrors, tasks, ntasks,
                 wg, resultChan, closed, results, mi, saved>>

\* close(resultChan)
MainClose ==
  /\ mainpc = "close"
  /\ closed' = TRUE
  /\ mainpc' = "drain"
  /\ UNCHANGED <<ext, scrollFail, recursive, domains, links, pages, redis, redisError, db, dbErrors, tasks, ntasks,
                 wg, resultChan, results, mi, saved>>

\* for res := range resultChan: one receive, or the end of the range over
\* the closed and empty channel
MainDrain ==
  /\ mainpc = "drain"
  /\ IF resultChan # <<>>
     THEN /\ results' = Append(results, Head(resultChan))
          /\ resultChan' = Tail(resultChan)
          /\ mainpc' = mainpc
     ELSE /\ closed
          /\ mainpc' = "save"
          /\ UNCHANGED <<results, resultChan>>
  /\ UNCHANGED <<ext, scrollFail, recursive, domains, links, pages, redis, redisError, db, dbErrors, tasks, ntasks,
                 wg, closed, mi, saved>>

\* saveResults(results)
MainSave ==
  /\ mainpc = "save"
  /\ saved' = results
  /\ mainpc' = "done"
  /\ UNCHANGED <<ext, scrollFail, recursive, domains, links, pages, redis, redisError, db, dbErrors, tasks, ntasks,
                 wg, resultChan, closed, results, mi>>

\* ---------------------------------------------------------- specification
TaskStep(t) ==
  \/ CheckVisited(t)
  \/ MarkVisited(t)
  \/ NewSession(t)
  \/ LoadPage(t)
  \/ Scroll(t)
  \/ ExtractAndStore(t)
  \/ LoadPageRec(t)
  \/ CategoryLinks(t)
  \/ ExtractRec(t)
  \/ Paginate(t)
  \/ SpawnChild(t)
  \/ Send(t)
  \/ Cancel(t)
  \/ WgDone(t)

MainStep == MainSpawn \/ MainWait \/ MainClose \/ MainDrain \/ MainSave

Next ==
  \/ MainStep
  \/ \E t \in Slots : TaskStep(t)

Spec == Init /\ [][Next]_vars

\* the Go scheduler runs every runnable goroutine, and Redis, Postgres and
\* the browser answer every call (with a result or an error)
FairSpec == Spec /\ WF_vars(MainStep) /\ \A t \in Slots : WF_vars(TaskStep(t))

\* ----------------------------------------------------------------- claims
Running(t) == tasks[t].pc \notin {"idle", "done"}

Sessions == {t \in Slots : tasks[t].session}

MainPastWait == mainpc \in {"close", "drain", "save", "done"}

\* C1: of two tasks that run the claim step for the same URL while Redis
\* answers every call, at most one is told "not visited" and goes on to the
\* browser; the other is told "visited" and skips.
C1_ClaimIsAtomic ==
  ~redisError =>
    \A t1, t2 \in Slots :
      (t1 # t2 /\ tasks[t1].url = tasks[t2].url)
        => ~(tasks[t1].visited = "no" /\ tasks[t2].visited = "no")

\* C2: the WaitGroup counter is positive while any task, seed or spawned,
\* has not finished, and main is past wg.Wait() (and the channel closed)
\* only when every started task has finished and none can be spawned any more.
C2_CompletionTracking ==
  /\ \A t \in Slots : Running(t) => wg > 0
  /\ (MainPastWait \/ closed) => \A t \in Slots : ~Running(t)
  /\ wg = Cardinality({t \in Slots : Running(t)})

\* C2 witness: the recursive variant has finished a run in which a running
\* task spawned a category task
C2_Witness ==
  /\ recursive
  /\ mainpc = "done"
  /\ ntasks > Len(domains)

\* C3: a task that has reached its send on resultChan finds room in the
\* buffer: the results sent before main drains never exceed len(domains).
C3_SendNeverBlocks ==
  \A t \in Slots : tasks[t].pc = "send" => Len(resultChan) < Capacity

\* C4: the recursive variant on the single seed A with the link cycle
\* A -> B -> A, Redis answering every call, ends: all tasks finish, wg.Wait()
\* returns and saveResults is called.
C4_CycleTerminates ==
  (recursive /\ domains = <<"A">> /\ links = Cycle)
    => <>(redisError \/ mainpc = "done")

\* C5: in a run of two distinct seeds, a seed whose visited check said
\* "visited" has an entry with an empty URL list in the batch given to
\* saveResults.
C5_VisitedSeedHasEmptyEntry ==
  (mainpc = "done" /\ Len(domains) = 2 /\ domains[1] # domains[2] /\ ntasks = 2)
    => \A t \in Slots :
         tasks[t].visited = "yes"
           => InSeq(CrawlResult(tasks[t].url, <<>>), saved)

\* C6: a task whose navigation failed or timed out has a CrawlResult with
\* an empty URL list for its URL in the batch given to saveResults.
C6_FailedNavigationHasEmptyEntry ==
  mainpc = "done"
    => \A t \in Slots :
         tasks[t].err => InSeq(CrawlResult(tasks[t].url, <<>>), saved)

\* C7: a task whose visited check got a Redis error treats the URL as not
\* claimed: it returns without a browser session.
C7_FailsClosed ==
  \A t \in Slots :
    tasks[t].visited = "err" => (tasks[t].pc \in {"wgDone", "done"} /\ ~tasks[t].session)

\* C8: a task that begins its visited check when the key of its URL is in
\* Redis (a claim step for it has succeeded, the TTL has not expired)
\* returns at once: no session, no database write, no child task.
C8_ClaimedNotRevisited ==
  [][\A t \in Slots :
       (tasks[t].pc = "isURLVisited" /\ tasks[t].url \in redis
        /\ tasks'[t].pc # "isURLVisited")
         => (tasks'[t].pc = "wgDone" /\ db' = db /\ ntasks' = ntasks)]_vars

\* C9: the number of open browser sessions stays within a worker-pool size
\* that is independent of the number of tasks: here any size below the
\* number of goroutines a run may start.
WorkerPoolSize == MaxTasks - 1

C9_SessionsCapped == Cardinality(Sessions) <= WorkerPoolSize

\* C10: every task that opens a browser session releases it, and no
\* session is open once main has finished.  Runs in which a Redis call
\* failed, or which start as many goroutines as are explored, are left out
\* of the first part.
C10_SessionReleased ==
  /\ \A t \in Slots :
       tasks[t].session
         ~> (~tasks[t].session \/ redisError \/ ntasks = MaxTasks)
  /\ [](mainpc = "done" => Sessions = {})

\* --------------------------------------------- extractProductURLs by itself
MaxFragments == 3      \* pieces of markup in one page content

\* pieces of markup: an opening tag up to the quote of its href, product
\* paths ended by nothing, by "?" and by "/", and the closing quote and ">"
Fragments ==
  { <<"<", "a", " ", "h", "r", "e", "f", "=", "\"">>,
    <<"/", "d", "p", "/", "B", "0", "9", "X", "Y", "Z">>,
    <<"\"", ">">>,
    <<"/", "p", "/", "1", "?">>,
    <<"/", "i", "t", "e", "m", "/", "2", "/">> }

RECURSIVE Contents(_)
Contents(n) ==
  IF n = 0 THEN {<<>>}
  ELSE LET shorter == Contents(n - 1)
       IN  shorter \cup {c \o f : c \in shorter, f \in Fragments}

ShopTest == 
  <<"h", "t", "t", "p", "s", ":", "/", "/", "s", "h", "o", "p", ".", "t", "e", "s", "t">>

Bases ==
  { ShopTest,
    
    <<"h", "t", "t", "p", "s", ":", "/", "/", "s", "h", "o", "p", ".", "t", "e", "s", "t", "/", "s", "?", "k", "=", "x">> }

\* the scheme and host of a base URL: up to, not including, its third "/"
RECURSIVE SchemeHostLen(_, _, _)
SchemeHostLen(b, i, slashes) ==
  IF i > Len(b) THEN Len(b)
  ELSE IF b[i] = "/" /\ slashes = 2 THEN i - 1
  ELSE SchemeHostLen(b, i + 1, IF b[i] = "/" THEN slashes + 1 ELSE slashes)

SchemeHost(b) == SubSeq(b, 1, SchemeHostLen(b, 1, 0))

ExtractInit ==
  /\ ext \in {[pc |-> "call", content |-> c, base |-> b, out |-> <<>>] :
                c \in Contents(MaxFragments), b \in Bases}
  /\ scrollFail = 0
  /\ recursive = FALSE
  /\ domains = <<>>
  /\ links = NoLinks
  /\ pages = OnePage
  /\ redis = {}
  /\ redisError = FALSE
  /\ db = {}
  /\ dbErrors = FALSE
  /\ tasks = [t \in Slots |-> NoTask]
  /\ ntasks = 0
  /\ wg = 0
  /\ resultChan = <<>>
  /\ closed = FALSE
  /\ results = <<>>
  /\ mainpc = "off"
  /\ mi = 1
  /\ saved = <<"none">>

\* extractProductURLs(htmlContent, baseURL), lines 179-192
ExtractCall ==
  /\ ext.pc = "call"
  /\ ext' = [ext EXCEPT
               !.pc = "done",
               !.out = extractProductURLs(FindAllString(ext.content), ext.base)]
  /\ UNCHANGED crawlerVars

ExtractNext == ExtractCall

ExtractSpec == ExtractInit /\ [][ExtractNext]_vars

\* C12: on the content <a href="/dp/B09XYZ"> with base https://shop.test,
\* extractProductURLs returns exactly [https://shop.test/dp/B09XYZ].
C12_QuotedHrefExtracted ==
  (ext.pc = "done"
   /\ ext.content = <<"<", "a", " ", "h", "r", "e", "f", "=", "\"">>
                   \o <<"/", "d", "p", "/", "B", "0", "9", "X", "Y", "Z">> \o <<"\"", ">">>
   /\ ext.base = ShopTest)
    => ext.out = <<ShopTest \o <<"/", "d", "p", "/", "B", "0", "9", "X", "Y", "Z">>>>

NoDuplicates(us) ==
  \A j1, j2 \in 1..Len(us) : us[j1] = us[j2] => j1 = j2

RECURSIVE AllMatches(_, _)
AllMatches(u, k) ==
  IF k = 0 THEN <<>> ELSE AllMatches(u, k - 1) \o Matches(u, k)

PastFirstPass(t) ==
  recursive /\ tasks[t].pc \in {"clickNextPage", "spawn", "send"}

MaxRecursionDepth == MaxTasks - 2

\* C15: no task deeper than the maximum recursion depth (seeds have depth
\* 0, a category-derived task its parent's depth + 1) is ever spawned or
\* executed.
C15_DepthLimited ==
  \A t \in Slots : tasks[t].depth <= MaxRecursionDepth

Seeds == {domains[j] : j \in 1..Len(domains)}

\* C16: the batch handed to saveResults has at most one CrawlResult per
\* seed, and the Domain of each of its results is a seed URL (the product
\* URLs of category-derived tasks are not entries of their own).
C16_OneResultPerSeed ==
  mainpc = "done"
    => /\ Len(saved) <= Len(domains)
       /\ \A j \in 1..Len(saved) : saved[j].Domain \in Seeds

\* a CrawlResult of url u is in the channel or in main's results slice
Emitted(u) ==
  \/ \E j \in 1..Len(resultChan) : resultChan[j].Domain = u
  \/ \E j \in 1..Len(results) : results[j].Domain = u

Returning(t) == tasks[t].pc \in {"cancel", "wgDone", "done"}

\* C17: a task runs at most 5 scroll-and-wait cycles; after a cycle that
\* fails it runs no further cycle; and a task whose scrolling failed, but
\* whose page load did not, does not return without having emitted a
\* CrawlResult.
C17_ScrollDegrades ==
  \A t \in Slots :
    /\ tasks[t].scrolls <= scrollAttempts
    /\ tasks[t].scrollErr => tasks[t].scrolls = scrollFail
    /\ (scrollFail = 0 /\ tasks[t].scrolls > 0)
         => tasks[t].scrolls = scrollAttempts
    /\ (Returning(t) /\ tasks[t].scrollErr /\ ~tasks[t].err)
         => Emitted(tasks[t].url)

\* C17 witness: the run has ended; the third scroll cycle of a task failed,
\* it ran no fourth, and its result, with the product URL of the page, is in
\* the batch
C17_Witness ==
  /\ mainpc = "done"
  /\ \E t \in Slots :
       /\ tasks[t].pc = "done"
       /\ tasks[t].scrollErr
       /\ tasks[t].scrolls = 3
       /\ \E j \in 1..Len(saved) :
            /\ saved[j].Domain = tasks[t].url
            /\ saved[j].URLs # <<>>

\* the tasks that have returned after their send: they were not told
\* "visited" and their page load did not fail
Senders ==
  {t \in Slots : /\ tasks[t].pc = "done"
                 /\ tasks[t].visited # "yes"
                 /\ ~tasks[t].err}

\* C18: once resultChan is closed no task is at, or can still reach, its
\* send; and when saveResults is called the channel is empty and the batch
\* holds one result for each task that sent one.
C18_NoSendAfterClose ==
  /\ closed => \A t \in Slots : tasks[t].pc \in {"idle", "done"}
  /\ mainpc \in {"save", "done"}
       => /\ resultChan = <<>>
          /\ Len(results) = Cardinality(Senders)
          /\ \A t \in Senders : \E j \in 1..Len(results) :
               results[j].Domain = tasks[t].url
  /\ mainpc = "done" => saved = results

\* C18 witness: main has closed the channel, drained two results that two
\* tasks had sent, and called saveResults with them
C18_Witness ==
  /\ closed
  /\ mainpc = "done"
  /\ Cardinality(Senders) = 2
  /\ Len(saved) = 2

\* the task has run markURLVisited after a check that said "not visited"
HasMarked(t) ==
  /\ tasks[t].pc \notin {"idle", "isURLVisited", "markURLVisited"}
  /\ tasks[t].visited = "no"

\* C19: while Redis answers every call, a URL that a task has marked
\* visited stays visited whatever happens to the task, and the batch holds
\* no product URL of a URL whose crawl failed.
C19_ClaimNeverReleased ==
  ~redisError =>
    /\ \A t \in Slots : HasMarked(t) => tasks[t].url \in redis
    /\ mainpc = "done" =>
         \A t \in Slots :
           (HasMarked(t) /\ tasks[t].err) =>
             \A j \in 1..Len(saved) :
               saved[j].Domain = tasks[t].url => saved[j].URLs = <<>>

\* C11: product_urls never holds two rows with the same URL, and no
\* db.Create is issued for a URL that is already stored (the store never
\* reports a violation of the unique index).
C11_UniqueAndNoRejectedInsert ==
  /\ \A r1, r2 \in db : r1.URL = r2.URL => r1 = r2
  /\ ~dbErrors

====
